---- MODULE Spec2Model ----
(***************************************************************************)
(* Model of the test/exam lifecycle engine of QAPortal-backend:            *)
(*   routes/tests.js          (src/unnamed/part_002)                       *)
(*   routes/studentAnswers.js (src/unnamed/part_003)                       *)
(*   models/Test.js           (src/unnamed/part_005)                       *)
(*   models/StudentTest.js    (src/unnamed/part_006)                       *)
(*   models/StudentAnswer.js  (src/models/Question.js, lines 81-183)       *)
(*   routes/admin.js          (src/routes/admin.js: tests, user lifecycle) *)
(*   routes/auth.js           (src/unnamed/part_004: login, OTP limiter)   *)
(*   models/User.js           (src/models/User.js)                         *)
(*   config/db.js             (src/unnamed/part_001: connectDB)            *)
(*                                                                         *)
(* Every route handler is an async function: it runs without interruption  *)
(* between two awaits, and other requests run while it waits.  Each        *)
(* handler is therefore cut at its database calls: one action per stretch  *)
(* of code that ends in a database call.  Requests in flight are held in    *)
(* the slots of reqs; a slot holds the handler's local variables.          *)
(* Times are milliseconds, as Date.getTime(), counted from the instant the *)
(* run starts.                                                             *)
(***************************************************************************)
EXTENDS Integers, Sequences, FiniteSets, TLC

\* ------------------------------------------------------------------ bounds
MaxTick == 4          \* the clock runs from 0 to MaxTick ticks
MaxReq == 2           \* number of requests in flight at one time
MaxAnswers == 2       \* submissions start while fewer answers are stored
MaxStored == 3        \* answers stored by earlier runs, where a run starts with some
MaxTests == 2         \* tests are created while fewer are stored
MaxCalls == 2         \* calls of connectDB
MaxOtpTick == 4       \* five-minute ticks of the clock beside the OTP limiter

TickMs == 60 * 60 * 1000           \* one tick of the modelled clock: one hour
Slots == 1..MaxReq

\* ------------------------------------------------------ program constants
Null == -1                               \* null / undefined / absent field
MsPerMinute == 60 * 1000                 \* part_002:169
ExamDurationMs == 2 * 60 * 60 * 1000     \* part_003:65 and part_003:122
DefaultDurationMinutes == 60             \* part_002:39, part_002:169

\* ------------------------------------------------------------ collaborators
\* Users, domains and questions are read, never written, by the engine.
DomainDocs == {"d1", "d2"}               \* the Domain collection
QuestionDocs == {"q1", "q2", "q3"}                   \* the Question collection
SchemaSections == {"A", "B"}
NoId == "-"
NotAString == <<"undefined">>            \* an answerText that is missing or no string
NoSections == {NoId}                     \* a Test document without sections


VARIABLES
    now,        \* the wall clock, Date.now()
    tests,      \* the Test collection: a sequence of documents
    attempts,   \* the StudentTest collection (the Attempt ledger)
    answers,    \* the StudentAnswer collection
    nextId,     \* the next _id the database hands out
    reqs,       \* the requests in flight: reqs[r] is slot r's handler and its locals
    reply,      \* the response sent last
    conn,       \* the connectDB call: its position, its locals and what it returned or threw
    users,      \* the User collection: a sequence of documents
    otpAttempts \* the OTP limiter's Map: email -> record

vars == <<now, tests, attempts, answers, nextId, reqs, reply, conn, users, otpAttempts>>

\* ----------------------------------------------------------------- helpers
\* String.prototype.trim over a sequence of characters
RECURSIVE TrimLeft(_)
TrimLeft(s) == IF s # <<>> /\ Head(s) = " " THEN TrimLeft(Tail(s)) ELSE s
RECURSIVE TrimRight(_)
TrimRight(s) ==
    IF s # <<>> /\ s[Len(s)] = " " THEN TrimRight(SubSeq(s, 1, Len(s) - 1)) ELSE s
Trim(s) == TrimRight(TrimLeft(s))

FirstIdx(S) == CHOOSE i \in S : \A j \in S : i <= j

\* --------------------------------------------------------- request records
\* const categorized = { upcoming: [], active: [], completed: [] }
NoBuckets == [upcoming |-> {}, active |-> {}, completed |-> {}]

NoSet == [f \in {} |-> TRUE]     \* a save with no modified path
Idle ==
    [op |-> "idle", pc |-> "done", result |-> "-",
     student |-> NoId, test |-> NoId, domain |-> NoId, section |-> NoId,
     question |-> NoId,
     text |-> <<>>, image |-> NoId, row |-> Null, mark |-> Null, dur |-> Null, valid |-> TRUE,
     start |-> Null, due |-> Null, at |-> Null, status |-> "-",
     rStart |-> Null, rDue |-> Null, buckets |-> NoBuckets,
     title |-> <<>>, domains |-> {}, user |-> NoId, set |-> NoSet]

\* what a response shows of the request it answers
Response(q) ==
    [op |-> q.op, result |-> q.result, rStart |-> q.rStart, rDue |-> q.rDue,
     total |-> IF q.op = "total" /\ q.result = "ok" THEN q.mark ELSE Null,
     buckets |-> q.buckets,
     status |-> IF q.op = "getTest" /\ q.result = "ok" THEN q.status ELSE "-"]

\* Slot r's handler moves on to q; once q has answered, the slot is free.
Step(r, q) ==
    IF q.pc = "done"
    THEN /\ reqs' = [reqs EXCEPT ![r] = Idle]
         /\ reply' = Response(q)
    ELSE /\ reqs' = [reqs EXCEPT ![r] = q]
         /\ reply' = reply

\* A new request arrives in the free slot r.
Arrive(r, q) == reqs[r].op = "idle" /\ Step(r, q)

\* The handler answers: res.status(..).json(..)
Reply(q, res) == [q EXCEPT !.pc = "done", !.result = res]

\* mongoose.Types.ObjectId.isValid, of the ids written as strings and as numbers
isValidId(id) == id # NoId /\ id # "bad"
isValidRowId(id) == id \in Nat

\* ------------------------------------------------------------------- clock
Tick ==
    /\ now + TickMs <= MaxTick * TickMs
    /\ now' = now + TickMs
    /\ UNCHANGED <<tests, attempts, answers, nextId, reqs, reply, conn, users, otpAttempts>>

\* ------------------------------------------------------- Test collection
TestById(id) == {i \in DOMAIN tests : tests[i].id = id}

\* GET /tests/student: the tests a student is shown are those open to all
\* and those that name the student
eligibleFor(t, student) == t.eligibleStudents = {} \/ student \in t.eligibleStudents

\* (a status that knows the running window only: a test past its end reads
\* as not begun)
computeStatusWindowOnly(t, time) ==
    IF time < t.startDate \/ time > t.endDate THEN "inactive" ELSE "active"

\* (a status that trusts a stored 'finished')
computeStatusStoredFirst(t, time) ==
    IF t.status = "finished" \/ time > t.endDate THEN "finished"
    ELSE IF time < t.startDate THEN "inactive"
    ELSE "active"

computeStatusAt(t, time) ==
    IF time < t.startDate THEN "inactive"
    ELSE IF time > t.endDate THEN "finished"
    ELSE "active"

computeStatus(t) == computeStatusAt(t, now)

\* TestSchema validators, run by Test.create
TestSchemaValid(doc) ==
    /\ doc.domains # {}
    /\ ~(doc.endDate <= doc.startDate)
    /\ doc.durationMinutes >= 1

\* ------------------------------------------- StudentTest collection (ledger)
AttemptOf(student, test) ==
    {i \in DOMAIN attempts : attempts[i].student = student /\ attempts[i].test = test}
AttemptById(id) == {i \in DOMAIN attempts : attempts[i].id = id}

\* (a ledger without the unique index)
NoUniqueIndex(student, test) == TRUE

\* StudentTestSchema.index({ student: 1, test: 1 }, { unique: true })
UniqueIndexAllows(student, test) == AttemptOf(student, test) = {}

\* a document inserted by an upsert: the filter's fields and the schema defaults
NewAttempt(id, student, test) ==
    [id |-> id, student |-> student, test |-> test, startTime |-> Null,
     dueTime |-> Null, endTime |-> Null, score |-> Null,
     selectedDomain |-> NoId, selectedSection |-> NoId, status |-> "pending"]

\* { $set: { startTime, dueTime, status: 'in-progress', selectedDomain, selectedSection } }
SetWindow(q) ==
    [startTime |-> q.start, dueTime |-> q.due, status |-> "in-progress",
     selectedDomain |-> q.domain, selectedSection |-> q.section]

\* (an update that also resets the status)
SetScoreAndStatus(q) == [score |-> q.mark, status |-> "pending"]

\* { $set: { score: total } }
SetScore(q) == [score |-> q.mark]

\* $set applied to a document: the paths named are replaced, the others kept
Update(a, set) == [f \in DOMAIN a |-> IF f \in DOMAIN set THEN set[f] ELSE a[f]]

\* findOneAndUpdate(.., { upsert: true }), first half: the document that
\* matches is updated in place; when none matches the server goes on to insert.
UpsertMatch(q, set) ==
    LET m == AttemptOf(q.student, q.test)
    IN IF m # {}
       THEN /\ attempts' = [attempts EXCEPT ![FirstIdx(m)] = Update(@, set)]
            /\ nextId' = nextId
       ELSE UNCHANGED <<attempts, nextId, conn, users, otpAttempts>>

\* second half: the insert, which the unique index may refuse (E11000)
UpsertInsert(q, set) ==
    /\ UniqueIndexAllows(q.student, q.test)
    /\ attempts' = Append(attempts, Update(NewAttempt(nextId, q.student, q.test), set))
    /\ nextId' = nextId + 1

\* E11000 on the insert: a server that retries the upsert updates the
\* document that won
UpsertRetry(q, set) ==
    /\ ~UniqueIndexAllows(q.student, q.test)
    /\ attempts' = [attempts EXCEPT ![FirstIdx(AttemptOf(q.student, q.test))] = Update(@, set)]
    /\ nextId' = nextId

\* (a refused insert that has reset the row it collided with)
UpsertFailsRewriting(q) ==
    /\ ~UniqueIndexAllows(q.student, q.test)
    /\ attempts' = [attempts EXCEPT ![FirstIdx(AttemptOf(q.student, q.test))].status = "pending"]
    /\ nextId' = nextId

\* E11000 on the insert, handed to the caller
UpsertFails(q) ==
    /\ ~UniqueIndexAllows(q.student, q.test)
    /\ UNCHANGED <<attempts, nextId, conn, users, otpAttempts>>

\* (a check that forgets the expired attempts)
isCompletedOnly(status) == status = "completed"

isTerminal(status) == status = "completed" \/ status = "expired"

\* (test.durationMinutes || 60) * 60 * 1000
durationMs(durationMinutes) ==
    (IF durationMinutes = Null \/ durationMinutes = 0
     THEN DefaultDurationMinutes ELSE durationMinutes) * MsPerMinute

\* POST /tests/:id/start, lines 145-158: the test is read and checked; the
\* request is refused, or goes on to read the ledger
StartChecked(student, id, domainId, section) ==
    LET q == [Idle EXCEPT !.op = "start", !.student = student, !.test = id,
                  !.domain = domainId, !.section = section]
        t == tests[FirstIdx(TestById(id))]
    IN IF ~isValidId(id) \/ ~isValidId(domainId) THEN Reply(q, "ValidationError")
       ELSE IF TestById(id) = {} THEN Reply(q, "NotFound")
       ELSE IF computeStatus(t) # "active" THEN Reply(q, "NotActive")
       ELSE IF domainId \notin t.domains THEN Reply(q, "DomainNotInTest")
       ELSE IF t.sections # NoSections /\ section \notin t.sections
       THEN Reply(q, "InvalidSection")
       ELSE [q EXCEPT !.pc = "existing", !.dur = t.durationMinutes]

StartBegin(r, student, id, domainId, section) ==
    /\ Arrive(r, StartChecked(student, id, domainId, section))
    /\ UNCHANGED <<now, tests, attempts, answers, nextId, conn, users, otpAttempts>>

\* lines 160-170: the existing attempt is read; the window is computed
StartExisting(r) ==
    LET q == reqs[r]
        m == AttemptOf(q.student, q.test)
    IN /\ q.op = "start" /\ q.pc = "existing"
       /\ IF m # {} /\ isTerminal(attempts[FirstIdx(m)].status)
          THEN Step(r, Reply(q, "AlreadyCompleted"))
          ELSE Step(r, [q EXCEPT !.pc = "upsert", !.start = now,
                                 !.due = now + durationMs(q.dur),
                                 !.row = IF m = {} THEN Null ELSE attempts[FirstIdx(m)].id])
       /\ UNCHANGED <<now, tests, attempts, answers, nextId, conn, users, otpAttempts>>

\* what the handler returns: { studentTest: st, questions, dueTime: due }
StartReply(q) == [Reply(q, "ok") EXCEPT !.rStart = q.start, !.rDue = q.due]

\* lines 172-176: the upsert finds the row, or finds none
StartUpsert(r) ==
    LET q == reqs[r]
    IN /\ q.op = "start" /\ q.pc = "upsert"
       /\ UpsertMatch(q, SetWindow(q))
       /\ IF AttemptOf(q.student, q.test) # {}
          THEN Step(r, StartReply(q))
          ELSE Step(r, [q EXCEPT !.pc = "insert"])
       /\ UNCHANGED <<now, tests, answers, conn, users, otpAttempts>>

\* lines 172-176: the upsert inserts
StartInsert(r) ==
    LET q == reqs[r]
    IN /\ q.op = "start" /\ q.pc = "insert"
       /\ \/ UpsertInsert(q, SetWindow(q)) /\ Step(r, StartReply(q))
          \/ UpsertRetry(q, SetWindow(q)) /\ Step(r, StartReply(q))
          \/ UpsertFails(q) /\ Step(r, Reply(q, "ServerError"))
       /\ UNCHANGED <<now, tests, answers, conn, users, otpAttempts>>

\* StudentTestSchema.pre('validate') on the document held in memory
AttemptValid(startTime, dueTime, endTime) ==
    /\ ~(startTime # Null /\ dueTime # Null /\ dueTime < startTime)
    /\ ~(startTime # Null /\ endTime # Null /\ endTime < startTime)

\* (an attempt that counts as expired from the instant of its deadline)
isExpiredFrom(dueTime, time) == dueTime # Null /\ time >= dueTime

\* st.dueTime && now > st.dueTime
isExpired(dueTime, time) == dueTime # Null /\ time > dueTime

\* POST /tests/:id/submit, lines 194-204: the attempt is read and closed in memory
FinishBegin(r, student, id) ==
        LET q == [Idle EXCEPT !.op = "finish", !.student = student, !.test = id]
            m == AttemptOf(student, id)
            st == attempts[FirstIdx(m)]
            expired == isExpired(st.dueTime, now)
        IN /\ Arrive(r,
                IF ~isValidId(id) THEN Reply(q, "ValidationError")
                ELSE IF m = {} THEN Reply(q, "NotStarted")
                ELSE [q EXCEPT !.pc = "save", !.row = st.id, !.at = now,
                               !.status = IF expired THEN "expired" ELSE "completed",
                               !.valid = AttemptValid(st.startTime, st.dueTime, now)])
           /\ UNCHANGED <<now, tests, attempts, answers, nextId, conn, users, otpAttempts>>

\* line 205: st.save() writes the modified paths of the document
FinishSave(r) ==
    LET q == reqs[r]
        m == AttemptById(q.row)
    IN /\ q.op = "finish" /\ q.pc = "save"
       /\ IF q.valid /\ m # {}
          THEN /\ attempts' = [attempts EXCEPT ![FirstIdx(m)] =
                                  [@ EXCEPT !.endTime = q.at, !.status = q.status]]
               /\ Step(r, Reply(q, "ok"))
          ELSE /\ attempts' = attempts
               /\ Step(r, Reply(q, "ServerError"))
       /\ UNCHANGED <<now, tests, answers, nextId, conn, users, otpAttempts>>

\* ----------------------------------------------- StudentAnswer collection
SessionOf(student, domain, section) ==
    {i \in DOMAIN answers : /\ answers[i].student = student /\ answers[i].domain = domain
                            /\ answers[i].section = section}
AnswerOf(student, question, domain, section) ==
    {i \in DOMAIN answers : /\ answers[i].student = student
                            /\ answers[i].question = question
                            /\ answers[i].domain = domain /\ answers[i].section = section}
AnswerById(id) == {i \in DOMAIN answers : answers[i].id = id}

\* startTime.getTime() + (2 * 60 * 60 * 1000)
examEnd(examStartTime) == examStartTime + ExamDurationMs

\* (a gate that never closes)
neverExpired(time, endTime) == FALSE

\* now > endTime
examExpired(time, endTime) == time > endTime

\* POST /student-answers/start-exam, lines 20-42: the stored session is read
ExamBegin(r, student, domainId, section, testId) ==
        LET q == [Idle EXCEPT !.op = "startExam", !.student = student, !.test = testId,
                      !.domain = domainId, !.section = section]
            m == SessionOf(student, domainId, section)
        IN /\ Arrive(r,
                IF domainId = NoId \/ section = NoId THEN Reply(q, "ValidationError")
                ELSE IF ~isValidId(domainId) THEN Reply(q, "ValidationError")
                ELSE IF domainId \notin DomainDocs THEN Reply(q, "NotFound")
                ELSE IF m # {}
                THEN [q EXCEPT !.pc = "session",
                               !.start = answers[FirstIdx(m)].examStartTime,
                               !.due = answers[FirstIdx(m)].examEndTime]
                ELSE [q EXCEPT !.pc = "upsert"])
           /\ UNCHANGED <<now, tests, attempts, answers, nextId, conn, users, otpAttempts>>

\* lines 44-61: a session exists
ExamSession(r) ==
    LET q == reqs[r]
    IN /\ q.op = "startExam" /\ q.pc = "session"
       /\ IF examExpired(now, q.due)
          THEN Step(r, Reply(q, "ExamExpired"))
          ELSE Step(r, [Reply(q, "ok") EXCEPT !.rStart = q.start, !.rDue = q.due])
       /\ UNCHANGED <<now, tests, attempts, answers, nextId, conn, users, otpAttempts>>

\* lines 63-86: a new session; with a testId the ledger row is upserted
ExamUpsert(r) ==
    LET q == reqs[r]
        w == [q EXCEPT !.start = now, !.due = examEnd(now)]
        ok == [Reply(w, "ok") EXCEPT !.rStart = w.start, !.rDue = w.due]
    IN /\ q.op = "startExam" /\ q.pc = "upsert"
       /\ IF q.test # NoId /\ isValidId(q.test)
          THEN /\ UpsertMatch(w, SetWindow(w))
               /\ IF AttemptOf(q.student, q.test) # {}
                  THEN Step(r, ok)
                  ELSE Step(r, [w EXCEPT !.pc = "insert"])
          ELSE /\ Step(r, ok)
               /\ UNCHANGED <<attempts, nextId, conn, users, otpAttempts>>
       /\ UNCHANGED <<now, tests, answers, conn, users, otpAttempts>>

\* lines 70-78: the upsert inserts; a failure is logged and not reported
ExamInsert(r) ==
    LET q == reqs[r]
        ok == [Reply(q, "ok") EXCEPT !.rStart = q.start, !.rDue = q.due]
    IN /\ q.op = "startExam" /\ q.pc = "insert"
       /\ \/ UpsertInsert(q, SetWindow(q)) /\ Step(r, ok)
          \/ UpsertRetry(q, SetWindow(q)) /\ Step(r, ok)
          \/ UpsertFails(q) /\ Step(r, ok)
       /\ UNCHANGED <<now, tests, answers, conn, users, otpAttempts>>

\* (a text check that does not trim)
hasTextUntrimmed(answerText) == answerText # NotAString /\ Len(answerText) > 0

\* typeof answerText === 'string' && answerText.trim().length > 0
hasText(answerText) == answerText # NotAString /\ Len(Trim(answerText)) > 0

Inserting == {s \in Slots : reqs[s].op = "submit" /\ reqs[s].row = Null}

\* POST /student-answers/submit, lines 97-167: checks, deadline, lookup
SubmitBegin(r, student, questionId, domainId, section, examStartTime, answerText, imageUrl, testId) ==
        LET endTime == examEnd(examStartTime)
            m == AnswerOf(student, questionId, domainId, section)
            q == [Idle EXCEPT !.op = "submit", !.student = student, !.test = testId,
                      !.question = questionId, !.domain = domainId, !.section = section,
                      !.start = examStartTime, !.at = now,
                      !.image = imageUrl]
        IN /\ m # {} \/ Len(answers) + Cardinality(Inserting) < MaxAnswers
           /\ Arrive(r,
                IF questionId = NoId \/ domainId = NoId \/ section = NoId
                   \/ examStartTime = Null
                THEN Reply(q, "MissingFields")
                ELSE IF ~isValidId(questionId) \/ ~isValidId(domainId)
                THEN Reply(q, "ValidationError")
                ELSE IF questionId \notin QuestionDocs THEN Reply(q, "NotFound")
                ELSE IF domainId \notin DomainDocs THEN Reply(q, "NotFound")
                ELSE IF examExpired(now, endTime) THEN Reply(q, "ExamExpired")
                ELSE IF ~hasText(answerText) THEN Reply(q, "ValidationError")
                ELSE [q EXCEPT !.pc = "write", !.due = endTime,
                               !.text = Trim(answerText),
                               !.row = IF m = {} THEN Null ELSE answers[FirstIdx(m)].id])
           /\ UNCHANGED <<now, tests, attempts, answers, nextId, conn, users, otpAttempts>>

\* StudentAnswerSchema.pre('validate') and the required paths
AnswerValid(q) ==
    /\ ~(q.start # Null /\ q.due # Null /\ q.due < q.start)
    /\ q.section \in SchemaSections

\* (a write that replaces the whole document, its mark too)
SetAnswerWhole(a, q) ==
    [a EXCEPT !.student = q.student, !.domain = q.domain, !.question = q.question,
              !.test = q.test, !.section = q.section, !.examStartTime = q.start,
              !.examEndTime = q.due, !.submittedAt = q.at, !.answerText = q.text,
              !.imageUrl = q.image, !.mark = Null]

\* the fields of answerData, assigned to a stored or a new document; the
\* image reference (imageUrl with imagePublicId) is a field of answerData
\* only when the request carries one
SetAnswer(a, q) ==
    [a EXCEPT !.student = q.student, !.domain = q.domain, !.question = q.question,
              !.test = q.test, !.section = q.section, !.examStartTime = q.start,
              !.examEndTime = q.due, !.submittedAt = q.at, !.answerText = q.text,
              !.imageUrl = IF q.image # NoId THEN q.image ELSE a.imageUrl]

NewAnswer(id) ==
    [id |-> id, student |-> NoId, domain |-> NoId, question |-> NoId, test |-> NoId,
     section |-> NoId, answerText |-> <<>>, imageUrl |-> NoId, submittedAt |-> Null,
     examStartTime |-> Null, examEndTime |-> Null, mark |-> Null]

\* lines 169-187: existingAnswer.save() or StudentAnswer.create(answerData)
SubmitWrite(r) ==
    LET q == reqs[r]
        m == AnswerById(q.row)
    IN /\ q.op = "submit" /\ q.pc = "write"
       /\ IF ~AnswerValid(q) \/ (q.row # Null /\ m = {})
          THEN /\ UNCHANGED <<answers, nextId, conn, users, otpAttempts>>
               /\ Step(r, Reply(q, "ServerError"))
          ELSE IF q.row # Null
          THEN /\ answers' = [answers EXCEPT ![FirstIdx(m)] = SetAnswer(@, q)]
               /\ nextId' = nextId
               /\ Step(r, Reply(q, "ok"))
          ELSE /\ answers' = Append(answers, SetAnswer(NewAnswer(nextId), q))
               /\ nextId' = nextId + 1
               /\ Step(r, [Reply(q, "ok") EXCEPT !.row = nextId])
       /\ UNCHANGED <<now, tests, attempts, conn, users, otpAttempts>>

\* (filters that take the mark 0 for no mark, as !mark and mark do)
addMarkFilterFalsy(a) == a.mark = Null \/ a.mark = 0
editMarkFilterTruthy(a) == a.mark # Null /\ a.mark # 0

\* { $or: [{ mark: null }, { mark: { $exists: false } }] }
addMarkFilter(a) == a.mark = Null

\* (an edit filter that matches whatever the mark)
editMarkFilterAny(a) == TRUE

\* { mark: { $ne: null } }
editMarkFilter(a) == a.mark # Null

\* typeof mark !== 'number' || mark < 0
markInvalid(mark) == mark = Null \/ mark < 0

\* one conditional findOneAndUpdate({ _id, <filter> }, { $set: { mark } })
\* m: the documents that match the filter
MarkUpdate(r, op, m, answerId, mark) ==
        LET q == [Idle EXCEPT !.op = op, !.row = answerId, !.mark = mark]
        IN /\ Arrive(r,
                IF markInvalid(mark) THEN Reply(q, "ValidationError")
                ELSE IF ~isValidRowId(answerId) THEN Reply(q, "ValidationError")
                ELSE IF m # {} THEN Reply(q, "ok")
                ELSE [q EXCEPT !.pc = "lookup", !.mark = Null])   \* mark: not read again
           /\ answers' = IF ~markInvalid(mark) /\ isValidRowId(answerId) /\ m # {}
                         THEN [answers EXCEPT ![FirstIdx(m)] = [@ EXCEPT !.mark = mark]]
                         ELSE answers
           /\ UNCHANGED <<now, tests, attempts, nextId, conn, users, otpAttempts>>

\* the lookup that tells why nothing was updated
MarkLookup(r, op, refusal) ==
    LET q == reqs[r]
    IN /\ q.op = op /\ q.pc = "lookup"
       /\ IF AnswerById(q.row) = {}
          THEN Step(r, Reply(q, "NotFound"))
          ELSE Step(r, Reply(q, refusal))
       /\ UNCHANGED <<now, tests, attempts, answers, nextId, conn, users, otpAttempts>>

\* POST /student-answers/marks/add
AddMarkUpdate(r, answerId, mark) ==
    MarkUpdate(r, "addMark", {i \in AnswerById(answerId) : addMarkFilter(answers[i])},
               answerId, mark)
AddMarkLookup(r) == MarkLookup(r, "addMark", "MarkAlreadyExists")

\* PUT /student-answers/marks/edit/:id
EditMarkUpdate(r, answerId, mark) ==
    MarkUpdate(r, "editMark", {i \in AnswerById(answerId) : editMarkFilter(answers[i])},
               answerId, mark)
EditMarkLookup(r) == MarkLookup(r, "editMark", "NoExistingMark")

\* (a sum that adds the stored field as it is, unset or not)
RECURSIVE SumRawMarks(_)
SumRawMarks(S) ==
    IF S = {} THEN 0
    ELSE LET i == CHOOSE j \in S : TRUE
         IN answers[i].mark + SumRawMarks(S \ {i})

\* answers.reduce((sum, a) => sum + (a.mark ?? 0), 0)
RECURSIVE SumMarks(_)
SumMarks(S) ==
    IF S = {} THEN 0
    ELSE LET i == CHOOSE j \in S : TRUE
             mk == answers[i].mark
         IN (IF mk # Null THEN mk ELSE 0) + SumMarks(S \ {i})

\* POST /student-answers/calculate-total, lines 274-289
TotalBegin(r, studentId, domainId, testId) ==
        LET m == {i \in DOMAIN answers : /\ answers[i].student = studentId
                                           /\ answers[i].domain = domainId
                                           /\ (testId # NoId => answers[i].test = testId)}
            q == [Idle EXCEPT !.op = "total", !.student = studentId, !.domain = domainId,
                      !.test = testId, !.mark = SumMarks(m)]
        IN /\ Arrive(r,
                IF studentId = NoId \/ domainId = NoId THEN Reply(q, "ValidationError")
                ELSE IF ~isValidId(studentId) \/ ~isValidId(domainId)
                THEN Reply(q, "ValidationError")
                ELSE IF testId = NoId THEN Reply(q, "ok")
                ELSE IF ~isValidId(testId) THEN Reply(q, "ValidationError")
                ELSE [q EXCEPT !.pc = "upsert"])
           /\ UNCHANGED <<now, tests, attempts, answers, nextId, conn, users, otpAttempts>>

\* lines 290-294: the upsert finds the row, or finds none
TotalUpsert(r) ==
    LET q == reqs[r]
    IN /\ q.op = "total" /\ q.pc = "upsert"
       /\ UpsertMatch(q, SetScore(q))
       /\ IF AttemptOf(q.student, q.test) # {}
          THEN Step(r, Reply(q, "ok"))
          ELSE Step(r, [q EXCEPT !.pc = "insert"])
       /\ UNCHANGED <<now, tests, answers, conn, users, otpAttempts>>

\* lines 290-294: the upsert inserts
TotalInsert(r) ==
    LET q == reqs[r]
    IN /\ q.op = "total" /\ q.pc = "insert"
       /\ \/ UpsertInsert(q, SetScore(q)) /\ Step(r, Reply(q, "ok"))
          \/ UpsertRetry(q, SetScore(q)) /\ Step(r, Reply(q, "ok"))
          \/ UpsertFails(q) /\ Step(r, Reply(q, "ServerError"))
       /\ UNCHANGED <<now, tests, answers, conn, users, otpAttempts>>

\* ------------------------------------------------ Test collection, writers
\* titles, as the sequences of their characters
Quiz == <<"Q", "u", "i", "z">>
Exam == <<"E", "x", "a", "m">>

DayMs == 24 * 60 * 60 * 1000

\* new Date() with setHours(0,0,0,0); time 0 is a midnight
StartOfToday(time) == time - (time % DayMs)

TestByTitle(title) == {i \in DOMAIN tests : tests[i].title = title}

\* the _id of the k-th document created
TestIdAt(k) == <<"t1", "t2", "t3", "t4">>[k]

\* the document handed to Test.create, the schema's defaults and the trim
\* setter applied
NewTest(id, title, domains, startDate, endDate) ==
    [id |-> id, title |-> Trim(title), domains |-> domains,
     startDate |-> startDate, endDate |-> endDate,
     durationMinutes |-> DefaultDurationMinutes, sections |-> SchemaSections,
     eligibleStudents |-> {}, status |-> "inactive"]

\* Test.create: the validators run, then the insert
CreateDoc(r, q) ==
    LET doc == NewTest(TestIdAt(Len(tests) + 1), q.title, q.domains, q.start, q.due)
    IN IF TestSchemaValid(doc)
       THEN /\ tests' = Append(tests, doc)
            /\ Step(r, Reply(q, "ok"))
       ELSE /\ tests' = tests
            /\ Step(r, Reply(q, "ServerError"))

\* the creations that have passed their checks
Creating == {s \in Slots : reqs[s].pc = "create"}

\* POST /tests/admin, lines 37-47: the body is checked, the title looked up
CreateBegin(r, title, domains, startDate, endDate) ==
        LET q == [Idle EXCEPT !.op = "createTest", !.title = title, !.domains = domains,
                      !.start = startDate, !.due = endDate]
        IN /\ Len(tests) + Cardinality(Creating) < MaxTests
           /\ Arrive(r,
                IF title = <<>> \/ startDate = Null \/ endDate = Null
                THEN Reply(q, "ValidationError")
                ELSE IF domains = {} THEN Reply(q, "ValidationError")
                ELSE IF TestByTitle(Trim(title)) # {} THEN Reply(q, "DuplicateTitle")
                ELSE [q EXCEPT !.pc = "create"])
           /\ UNCHANGED <<now, tests, attempts, answers, nextId, conn, users, otpAttempts>>

\* lines 49-75: the domains and the dates are checked, the test is created
CreateSave(r) ==
    LET q == reqs[r]
    IN /\ q.op = "createTest" /\ q.pc = "create"
       /\ IF ~(q.domains \subseteq DomainDocs) \/ q.due <= q.start
             \/ q.start < StartOfToday(now)
          THEN /\ tests' = tests
               /\ Step(r, Reply(q, "ValidationError"))
          ELSE CreateDoc(r, q)
       /\ UNCHANGED <<now, attempts, answers, nextId, conn, users, otpAttempts>>

\* POST /admin/tests, admin.js lines 24-40: an empty domains array is truthy
\* and passes the check of the body
AdminCreateBegin(r, title, domains, startDate, endDate) ==
        LET q == [Idle EXCEPT !.op = "adminCreateTest", !.title = title, !.domains = domains,
                      !.start = startDate, !.due = endDate]
        IN /\ Len(tests) + Cardinality(Creating) < MaxTests
           /\ Arrive(r,
                IF title = <<>> \/ startDate = Null \/ endDate = Null
                THEN Reply(q, "ValidationError")
                ELSE IF TestByTitle(Trim(title)) # {} THEN Reply(q, "DuplicateTitle")
                ELSE [q EXCEPT !.pc = "create"])
           /\ UNCHANGED <<now, tests, attempts, answers, nextId, conn, users, otpAttempts>>

\* admin.js lines 42-54: Test.create, an error answered 500
AdminCreateSave(r) ==
    LET q == reqs[r]
    IN /\ q.op = "adminCreateTest" /\ q.pc = "create"
       /\ CreateDoc(r, q)
       /\ UNCHANGED <<now, attempts, answers, nextId, conn, users, otpAttempts>>

\* PUT /tests/:id, lines 244-274, of a body that names title, domains and
\* durationMinutes; the dates are optional and checked when both are given.
\* findByIdAndUpdate(id, update, { new: true }) runs no validator and no hook.
UpdateTest(r, id, title, domains, startDate, endDate) ==
        LET q == [Idle EXCEPT !.op = "updateTest", !.test = id, !.title = title,
                      !.domains = domains, !.start = startDate, !.due = endDate]
            m == TestById(id)
            doc == [tests[FirstIdx(m)] EXCEPT
                        !.title = Trim(title), !.domains = domains,
                        !.durationMinutes = DefaultDurationMinutes,
                        !.startDate = IF startDate # Null THEN startDate ELSE @,
                        !.endDate = IF endDate # Null THEN endDate ELSE @]
            both == startDate # Null /\ endDate # Null
            written == isValidId(id) /\ ~(both /\ endDate <= startDate)
                       /\ ~(both /\ startDate < StartOfToday(now))
                       /\ m # {}
        IN /\ Arrive(r,
                IF ~isValidId(id) THEN Reply(q, "ValidationError")
                ELSE IF both /\ endDate <= startDate THEN Reply(q, "ValidationError")
                ELSE IF both /\ startDate < StartOfToday(now) THEN Reply(q, "ValidationError")
                ELSE IF m = {} THEN Reply(q, "NotFound")
                ELSE Reply(q, "ok"))
           /\ tests' = IF written THEN [tests EXCEPT ![FirstIdx(m)] = doc] ELSE tests
           /\ UNCHANGED <<now, attempts, answers, nextId, conn, users, otpAttempts>>

\* PUT /admin/tests/:id/status, admin.js lines 56-81
validStatuses == {"inactive", "active", "finished"}

SetTestStatus(r, id, status) ==
    LET q == [Idle EXCEPT !.op = "setStatus", !.test = id, !.status = status]
        m == TestById(id)
    IN /\ Arrive(r,
            IF status \notin validStatuses THEN Reply(q, "ValidationError")
            ELSE IF m = {} THEN Reply(q, "NotFound")
            ELSE Reply(q, "ok"))
       /\ tests' = IF status \in validStatuses /\ m # {}
                   THEN [tests EXCEPT ![FirstIdx(m)].status = status]
                   ELSE tests
       /\ UNCHANGED <<now, attempts, answers, nextId, conn, users, otpAttempts>>

\* DELETE /tests/:id, lines 277-282: Test.findByIdAndDelete
DeleteBegin(r, id) ==
    LET q == [Idle EXCEPT !.op = "deleteTest", !.test = id]
    IN /\ Arrive(r,
            IF ~isValidId(id) THEN Reply(q, "ValidationError")
            ELSE IF TestById(id) = {} THEN Reply(q, "NotFound")
            ELSE [q EXCEPT !.pc = "cascade"])
       /\ tests' = SelectSeq(tests, LAMBDA t : t.id # id)
       /\ UNCHANGED <<now, attempts, answers, nextId, conn, users, otpAttempts>>

\* lines 283-286: StudentTest.deleteMany({ test: id })
DeleteCascade(r) ==
    LET q == reqs[r]
    IN /\ q.op = "deleteTest" /\ q.pc = "cascade"
       /\ attempts' = SelectSeq(attempts, LAMBDA a : a.test # q.test)
       /\ Step(r, Reply(q, "ok"))
       /\ UNCHANGED <<now, tests, answers, nextId, conn, users, otpAttempts>>

\* ------------------------------------------------------ Test collection, reads
\* GET /tests/:id, lines 129-140: { ...t, status: computeStatus(t) }
GetTest(r, id) ==
    LET q == [Idle EXCEPT !.op = "getTest", !.test = id]
        m == TestById(id)
    IN /\ Arrive(r,
            IF ~isValidId(id) THEN Reply(q, "ValidationError")
            ELSE IF m = {} THEN Reply(q, "NotFound")
            ELSE [Reply(q, "ok") EXCEPT !.status = computeStatus(tests[FirstIdx(m)])])
       /\ UNCHANGED <<now, tests, attempts, answers, nextId, conn, users, otpAttempts>>

\* GET /tests/student, lines 99-107: the tests the student may see, each with
\* the status computed for it
withStatus(student, status) ==
    {tests[i].id : i \in {j \in DOMAIN tests : /\ eligibleFor(tests[j], student)
                                               /\ computeStatus(tests[j]) = status}}

\* lines 110-113: the tests the student has completed or let expire
completedTestIds(student) ==
    {attempts[i].test : i \in {j \in DOMAIN attempts : /\ attempts[j].student = student
                                                       /\ isTerminal(attempts[j].status)}}

\* lines 115-118: the three lists of the answer
listed(seen, done) ==
    [upcoming |-> seen.upcoming, active |-> seen.active \ done,
     completed |-> (seen.upcoming \cup seen.active \cup seen.completed) \cap done]

\* lines 95-107: the tests are read
StudentListBegin(r, student) ==
    /\ Arrive(r, [Idle EXCEPT !.op = "listTests", !.student = student, !.pc = "history",
                       !.buckets = [upcoming |-> withStatus(student, "inactive"),
                                    active |-> withStatus(student, "active"),
                                    completed |-> withStatus(student, "finished")]])
    /\ UNCHANGED <<now, tests, attempts, answers, nextId, conn, users, otpAttempts>>

\* lines 110-121: the student's attempts are read, the lists are answered
StudentListReply(r) ==
    LET q == reqs[r]
    IN /\ q.op = "listTests" /\ q.pc = "history"
       /\ Step(r, [Reply(q, "ok") EXCEPT
                      !.buckets = listed(q.buckets, completedTestIds(q.student))])
       /\ UNCHANGED <<now, tests, attempts, answers, nextId, conn, users, otpAttempts>>

\* ------------------------------------------------------------ attempt history
\* (a projection that looks at the attempt's status first and never files an
\* open attempt of a finished test as completed)
categorizeByAttempt(status, testStatus) ==
    IF status = "completed" \/ status = "expired" THEN "completed"
    ELSE IF status = "in-progress" /\ testStatus = "active" THEN "active"
    ELSE IF status = "pending" /\ testStatus = "inactive" THEN "upcoming"
    ELSE "none"

\* GET /tests/student/my-tests, lines 321-327: the bucket an attempt is pushed to
categorize(status, testStatus) ==
    IF status = "completed" \/ status = "expired" \/ testStatus = "finished" THEN "completed"
    ELSE IF status = "in-progress" /\ testStatus = "active" THEN "active"
    ELSE IF status = "pending" /\ testStatus = "inactive" THEN "upcoming"
    ELSE "none"

\* lines 296-328: the student's rows, those whose test is gone skipped, each
\* filed by its status and the status computed for its test
categorized(student) ==
    [b \in DOMAIN NoBuckets |->
        {attempts[i].id : i \in {j \in DOMAIN attempts :
            /\ attempts[j].student = student
            /\ TestById(attempts[j].test) # {}
            /\ categorize(attempts[j].status,
                          computeStatus(tests[FirstIdx(TestById(attempts[j].test))])) = b}}]

\* GET /tests/student/my-tests, lines 294-336
MyTests(r, student) ==
    /\ Arrive(r, [Reply([Idle EXCEPT !.op = "myTests", !.student = student], "ok")
                    EXCEPT !.buckets = categorized(student)])
    /\ UNCHANGED <<now, tests, attempts, answers, nextId, conn, users, otpAttempts>>

\* ------------------------------------------------------------ specifications
\* The database outlives the server: a run starts from what earlier runs
\* stored.  StoredTests are documents POST /tests/admin can have stored.
StoredTests(durations, eligibles, sectionSets) ==
    {t \in {[id |-> "t1", title |-> Quiz, domains |-> {"d1"},
             startDate |-> 1 * TickMs, endDate |-> 3 * TickMs, durationMinutes |-> d,
             sections |-> ss, eligibleStudents |-> el,
             status |-> "inactive"] : d \in durations, el \in eligibles, ss \in sectionSets} :
     TestSchemaValid(t)}

\* ------------------------------------------------ config/db.js: connectDB
DefaultRetries == 5
baseDelay == 500
NoError == 0                  \* lastErr = null; the error of the k-th attempt is k
MissingUri == 99              \* new Error('MongoDB connection string is missing')
NoOpts == <<>>                \* connectDB(uri): opts = {}; <<n>> is opts = {retries: n}
NoRecords == [e \in {} |-> 0] \* otpAttempts = new Map()

\* conn: the call's position (pc), its locals (retries, attempt, lastErr), what it did
\* (tried: calls of mongoose.connect, slept: the delays awaited) and how it ended
NotCalled ==
    [pc |-> "idle", readyState |-> 0, calls |-> 0, retries |-> 0, attempt |-> 0,
     lastErr |-> NoError, tried |-> 0, slept |-> <<>>, outcome |-> "-", thrown |-> NoError]

retriesOf(opts) == IF Len(opts) = 1 THEN opts[1] ELSE DefaultRetries

\* throw e
Throws(c, e) == [c EXCEPT !.pc = "done", !.outcome = "threw", !.thrown = e]

\* the loop test `attempt <= retries` and what follows it
LoopTest(c) == IF c.attempt <= c.retries THEN [c EXCEPT !.pc = "connect"]
               ELSE Throws(c, c.lastErr)

\* lines 25-43: up to the first loop test
connectDB(hasUri, opts) ==
    /\ conn.pc \in {"idle", "done"}
    /\ conn.calls < MaxCalls
    /\ LET c == [NotCalled EXCEPT !.readyState = conn.readyState, !.calls = conn.calls + 1,
                                  !.retries = retriesOf(opts)]
       IN conn' = IF ~hasUri THEN Throws(c, MissingUri)
                  ELSE IF c.readyState = 1 THEN [c EXCEPT !.pc = "done", !.outcome = "returned"]
                  ELSE LoopTest([c EXCEPT !.attempt = 1, !.lastErr = NoError])
    /\ UNCHANGED <<now, tests, attempts, answers, nextId, reqs, reply, users, otpAttempts>>

\* lines 44-53: mongoose.connect settles; ok is whether it resolved
ConnectSettles(ok) ==
    /\ conn.pc = "connect"
    /\ LET c == [conn EXCEPT !.tried = @ + 1]
       IN conn' = IF ok THEN [c EXCEPT !.pc = "done", !.outcome = "returned", !.readyState = 1]
                  ELSE LET e == [c EXCEPT !.lastErr = c.attempt]
                       IN IF e.attempt < e.retries THEN [e EXCEPT !.pc = "sleep"]
                          ELSE LoopTest([e EXCEPT !.attempt = @ + 1])
    /\ UNCHANGED <<now, tests, attempts, answers, nextId, reqs, reply, users, otpAttempts>>

\* lines 53-56 and the loop's increment: sleep(delay) resolves after delay ms
ConnectSleeps ==
    /\ conn.pc = "sleep"
    /\ LET delay == baseDelay * 2 ^ (conn.attempt - 1)
       IN /\ now' = now + delay
          /\ conn' = LoopTest([conn EXCEPT !.slept = Append(@, delay), !.attempt = @ + 1])
    /\ UNCHANGED <<tests, attempts, answers, nextId, reqs, reply, users, otpAttempts>>

\* lines 65-68: mongoose.disconnect()
disconnectDB ==
    /\ conn.pc = "done"
    /\ conn.readyState = 1
    /\ conn' = [conn EXCEPT !.readyState = 0]
    /\ UNCHANGED <<now, tests, attempts, answers, nextId, reqs, reply, users, otpAttempts>>

\* ------------------------------------------------------ the User collection
\* POST /auth/register stores a student as active, staff and admins as waiting
NewUser(id, email, role) ==
    [id |-> id, email |-> email, role |-> role, isActive |-> (role = "student"),
     disabled |-> FALSE, deletedAt |-> Null, resetOtpCode |-> NoId, resetOtpExpires |-> Null]

UserById(id) == {i \in DOMAIN users : users[i].id = id}

\* userId && userId.length === 24
hasIdLength(id) == id # NoId /\ id # "bad"

\* document.save() writes the paths assigned a value other than the loaded one
Modified(u, assigned) == [f \in {g \in DOMAIN assigned : assigned[g] # u[g]} |-> assigned[f]]

\* PUT /admin/approve/:id, lines 127-155: the user is read and checked
ApproveBegin(r, id) ==
    LET q == [Idle EXCEPT !.op = "approve", !.user = id]
        m == UserById(id)
        u == users[FirstIdx(m)]
    IN /\ Arrive(r,
            IF ~hasIdLength(id) THEN Reply(q, "ValidationError")
            ELSE IF m = {} THEN Reply(q, "NotFound")
            ELSE IF u.deletedAt # Null THEN Reply(q, "Deleted")
            ELSE [q EXCEPT !.pc = "save", !.set = Modified(u, [isActive |-> TRUE])])
       /\ UNCHANGED <<now, tests, attempts, answers, nextId, conn, users, otpAttempts>>

\* DELETE /admin/remove/:id, lines 207-232
RemoveBegin(r, id) ==
    LET q == [Idle EXCEPT !.op = "remove", !.user = id]
        m == UserById(id)
        u == users[FirstIdx(m)]
    IN /\ Arrive(r,
            IF ~hasIdLength(id) THEN Reply(q, "ValidationError")
            ELSE IF m = {} THEN Reply(q, "NotFound")
            ELSE [q EXCEPT !.pc = "save",
                           !.set = Modified(u, [disabled |-> TRUE, isActive |-> FALSE,
                                                deletedAt |-> now])])
       /\ UNCHANGED <<now, tests, attempts, answers, nextId, conn, users, otpAttempts>>

\* PUT /admin/students/:id/status, lines 249-267; disabled is req.body.disabled
StatusBegin(r, id, disabled) ==
    LET q == [Idle EXCEPT !.op = "status", !.user = id]
        m == UserById(id)
        u == users[FirstIdx(m)]
    IN /\ Arrive(r,
            IF ~hasIdLength(id) THEN Reply(q, "ValidationError")
            ELSE IF m = {} \/ u.role # "student" THEN Reply(q, "NotFound")
            ELSE [q EXCEPT !.pc = "save",
                           !.set = Modified(u, [disabled |-> disabled, isActive |-> ~disabled])])
       /\ UNCHANGED <<now, tests, attempts, answers, nextId, conn, users, otpAttempts>>

\* PUT /admin/restore/:id, lines 340-364
RestoreBegin(r, id) ==
    LET q == [Idle EXCEPT !.op = "restore", !.user = id]
        m == UserById(id)
        u == users[FirstIdx(m)]
    IN /\ Arrive(r,
            IF ~hasIdLength(id) THEN Reply(q, "ValidationError")
            ELSE IF m = {} THEN Reply(q, "NotFound")
            ELSE IF u.deletedAt = Null THEN Reply(q, "NotDeleted")
            ELSE [q EXCEPT !.pc = "save",
                           !.set = Modified(u, [disabled |-> FALSE,
                                                isActive |-> (u.role = "student"),
                                                deletedAt |-> Null])])
       /\ UNCHANGED <<now, tests, attempts, answers, nextId, conn, users, otpAttempts>>

\* await user.save() and the answer, of the four handlers
UserSave(r, op) ==
    LET q == reqs[r]
        m == UserById(q.user)
    IN /\ q.op = op /\ q.pc = "save"
       /\ users' = [users EXCEPT ![FirstIdx(m)] = Update(@, q.set)]
       /\ Step(r, Reply(q, "ok"))
       /\ UNCHANGED <<now, tests, attempts, answers, nextId, conn, otpAttempts>>

ApproveSave(r) == UserSave(r, "approve")
RemoveSave(r) == UserSave(r, "remove")
StatusSave(r) == UserSave(r, "status")
RestoreSave(r) == UserSave(r, "restore")

\* POST /auth/login, lines 293-305: the checks after the password
loginAllows(u) == ~(~u.isActive /\ u.role # "student") /\ ~u.disabled

Login(r, id) ==
    LET q == [Idle EXCEPT !.op = "login", !.user = id]
        m == UserById(id)
        u == users[FirstIdx(m)]
    IN /\ Arrive(r, Reply(q, IF m = {} THEN "InvalidCredentials"
                             ELSE IF ~u.isActive /\ u.role # "student" THEN "NotApproved"
                             ELSE IF u.disabled THEN "Disabled"
                             ELSE "ok"))
       /\ UNCHANGED <<now, tests, attempts, answers, nextId, conn, users, otpAttempts>>

\* --------------------------------------------- routes/auth.js: the OTP limiter
MAX_OTP_ATTEMPTS == 5
OTP_WINDOW == 15 * 60 * 1000
OtpLifeMs == 10 * 60 * 1000              \* resetOtpExpires, line 518
OtpTickMs == 5 * 60 * 1000
OtpCodes == {"111111", "222222"}         \* Math.floor(100000 + Math.random() * 900000)

\* five minutes pass
OtpTick ==
    /\ now + OtpTickMs <= MaxOtpTick * OtpTickMs
    /\ now' = now + OtpTickMs
    /\ UNCHANGED <<tests, attempts, answers, nextId, reqs, reply, conn, users, otpAttempts>>

\* (a window that ends at its last millisecond)
otpWindowOverInclusive(time, resetTime) == time - resetTime >= OTP_WINDOW

\* now - record.resetTime > OTP_WINDOW
otpWindowOver(time, resetTime) == time - resetTime > OTP_WINDOW

\* lines 19-25: the record of the key, a fresh one when the Map has none, restarted
\* when its window is over
otpRecord(email, time) ==
    LET record == IF email \in DOMAIN otpAttempts THEN otpAttempts[email]
                  ELSE [attempts |-> 0, resetTime |-> time]
    IN IF otpWindowOver(time, record.resetTime) THEN [attempts |-> 0, resetTime |-> time]
       ELSE record

\* otpAttempts.set(key, record)
otpSet(email, record) ==
    [e \in DOMAIN otpAttempts \cup {email} |-> IF e = email THEN record ELSE otpAttempts[e]]

\* checkOtpRateLimit, lines 17-34: what it returns, and what it leaves in the Map (a
\* stored record is restarted in place before the limit is tested)
checkOtpRateLimit(email, time) == otpRecord(email, time).attempts < MAX_OTP_ATTEMPTS

otpAttemptsAfter(email, time) ==
    LET record == otpRecord(email, time)
    IN IF checkOtpRateLimit(email, time) THEN otpSet(email, [record EXCEPT !.attempts = @ + 1])
       ELSE IF email \in DOMAIN otpAttempts THEN otpSet(email, record)
       ELSE otpAttempts

UserByEmail(email) == {i \in DOMAIN users : users[i].email = email}

\* POST /auth/request-reset-otp, lines 486-508; email is the normalised address
RequestOtpBegin(r, email) ==
    LET q == [Idle EXCEPT !.op = "resetOtp", !.user = email]
    IN /\ IF email = ""
          THEN /\ Arrive(r, Reply(q, "ValidationError"))
               /\ otpAttempts' = otpAttempts
          ELSE /\ Arrive(r, IF checkOtpRateLimit(email, now) THEN [q EXCEPT !.pc = "lookup"]
                            ELSE Reply(q, "RateLimited"))
               /\ otpAttempts' = otpAttemptsAfter(email, now)
       /\ UNCHANGED <<now, tests, attempts, answers, nextId, conn, users>>

\* lines 508-519: the account is read and the code drawn
RequestOtpLookup(r) ==
    LET q == reqs[r]
        m == UserByEmail(q.user)
    IN /\ q.op = "resetOtp" /\ q.pc = "lookup"
       /\ IF m = {} THEN Step(r, Reply(q, "ok"))
          ELSE \E code \in OtpCodes :
                  Step(r, [q EXCEPT !.pc = "save", !.row = FirstIdx(m),
                                    !.set = [resetOtpCode |-> code,
                                             resetOtpExpires |-> now + OtpLifeMs]])
       /\ UNCHANGED <<now, tests, attempts, answers, nextId, conn, users, otpAttempts>>

\* lines 519-533: the code is saved and mailed
RequestOtpSave(r) ==
    LET q == reqs[r]
    IN /\ q.op = "resetOtp" /\ q.pc = "save"
       /\ users' = [users EXCEPT ![q.row] = Update(@, q.set)]
       /\ Step(r, Reply(q, "ok"))
       /\ UNCHANGED <<now, tests, attempts, answers, nextId, conn, otpAttempts>>

InitWith(stored) ==
    /\ now = 0
    /\ tests \in stored
    /\ attempts = <<>>
    /\ answers = <<>>
    /\ nextId = 1
    /\ reqs = [r \in Slots |-> Idle]
    /\ reply = Response(Idle)
    /\ conn = NotCalled
    /\ users = <<>>
    /\ otpAttempts = NoRecords

StartInputs(r) ==
    \E id \in {"t1", "t9"}, domainId \in {"d1", "d2"}, section \in {"A", "C"} :
        StartBegin(r, "s1", id, domainId, section)

\* The attempt ledger and all its writers
InitLedger == InitWith({<<t>> : t \in StoredTests({60}, {{}}, {SchemaSections})})

NextLedger ==
    \/ Tick
    \/ \E r \in Slots :
        \/ StartInputs(r)
        \/ StartExisting(r) \/ StartUpsert(r) \/ StartInsert(r)
        \/ \E id \in {"t1", "t9"} : FinishBegin(r, "s1", id)
        \/ FinishSave(r)
        \/ \E testId \in {NoId, "t1"} : ExamBegin(r, "s1", "d1", "A", testId)
        \/ ExamUpsert(r) \/ ExamInsert(r)      \* no answer is stored here: no session
        \/ \E testId \in {NoId, "t1"} : TotalBegin(r, "s1", "d1", testId)
        \/ TotalUpsert(r) \/ TotalInsert(r)

SpecLedger == InitLedger /\ [][NextLedger]_vars

\* The attempt history, read while rows are written by start-exam,
\* calculate-total and submit
NextHistory ==
    \/ Tick
    \/ \E r \in Slots :
        \/ FinishBegin(r, "s1", "t1")
        \/ FinishSave(r)
        \/ ExamBegin(r, "s1", "d1", "A", "t1")
        \/ ExamUpsert(r) \/ ExamInsert(r)
        \/ \E testId \in {"t1", "t9"} : TotalBegin(r, "s1", "d1", testId)
        \/ TotalUpsert(r) \/ TotalInsert(r)
        \/ MyTests(r, "s1")

SpecHistory == InitLedger /\ [][NextHistory]_vars

\* The Test collection and its writers
DateInputs == {Null, 1 * TickMs, 2 * TickMs}

NextTests ==
    \E r \in Slots :
        \/ \E title \in {Quiz, Exam}, domains \in {{}, {"d1"}}, startDate, endDate \in DateInputs :
              \/ CreateBegin(r, title, domains, startDate, endDate)
              \/ AdminCreateBegin(r, title, domains, startDate, endDate)
              \/ \E id \in {"t1", "t9"} : UpdateTest(r, id, title, domains, startDate, endDate)
        \/ CreateSave(r)
        \/ AdminCreateSave(r)

InitTests == InitWith({<<>>} \cup {<<t>> : t \in StoredTests({60}, {{}}, {SchemaSections})})

SpecTests == InitTests /\ [][NextTests]_vars

\* The deletion of a test, beside the writers of the ledger
NextDelete ==
    \/ Tick
    \/ \E r \in Slots :
        \/ StartBegin(r, "s1", "t1", "d1", "A")
        \/ StartExisting(r) \/ StartUpsert(r) \/ StartInsert(r)
        \/ \E id \in {"t1", "t9"} : DeleteBegin(r, id)
        \/ DeleteCascade(r)
        \/ ExamBegin(r, "s1", "d1", "A", "t9")
        \/ ExamUpsert(r) \/ ExamInsert(r)
        \/ TotalBegin(r, "s1", "d1", "t9")
        \/ TotalUpsert(r) \/ TotalInsert(r)

SpecDelete == InitLedger /\ [][NextDelete]_vars

\* The stored status set by an admin, beside what students are shown
NextStatus ==
    \/ Tick
    \/ \E r \in Slots :
        \/ \E id \in {"t1", "t9"}, status \in validStatuses \cup {"closed"} :
              SetTestStatus(r, id, status)
        \/ StartBegin(r, "s1", "t1", "d1", "A")
        \/ StartExisting(r) \/ StartUpsert(r) \/ StartInsert(r)
        \/ FinishBegin(r, "s1", "t1")
        \/ FinishSave(r)
        \/ GetTest(r, "t1")
        \/ StudentListBegin(r, "s1")
        \/ StudentListReply(r)

InitStatus == InitWith({<<t>> : t \in StoredTests({60}, {{}, {"s2"}}, {SchemaSections})})

SpecStatus == InitStatus /\ [][NextStatus]_vars

\* Admission alone: every ledger row is written by POST /tests/:id/start
InitAdmission == InitWith({<<t>> : t \in StoredTests({60}, {{}, {"s1"}, {"s2"}}, {SchemaSections, NoSections})})

NextAdmission ==
    \/ Tick
    \/ \E r \in Slots :
        \/ StartInputs(r)
        \/ StartExisting(r) \/ StartUpsert(r) \/ StartInsert(r)

SpecAdmission == InitAdmission /\ [][NextAdmission]_vars

\* Admission and submission: the two exam clocks
InitExamClock == InitWith({<<t>> : t \in StoredTests({60, 180}, {{}}, {SchemaSections})})

SubmitInputs(r, starts, texts, images, testIds) ==
    \E examStartTime \in starts, answerText \in texts, imageUrl \in images,
       testId \in testIds :
        SubmitBegin(r, "s1", "q1", "d1", "A", examStartTime, answerText, imageUrl, testId)

NextExamClock ==
    \/ Tick
    \/ \E r \in Slots :
        \/ StartBegin(r, "s1", "t1", "d1", "A")
        \/ StartExisting(r) \/ StartUpsert(r) \/ StartInsert(r)
        \/ SubmitInputs(r, {TickMs}, {<<>>, <<" ", "x">>}, {NoId}, {"t1"})
        \/ SubmitWrite(r)

SpecExamClock == InitExamClock /\ [][NextExamClock]_vars

\* The answers and their marks.  A grader names an answer it has been
\* shown, or (0) an id of no document.
InitAnswers == InitWith({<<>>})

MarkIds == {0} \cup {answers[i].id : i \in DOMAIN answers}
Marks == {0 - 1, 0, 3}

AddMarkInputs(r) == \E answerId \in MarkIds, mark \in Marks : AddMarkUpdate(r, answerId, mark)
EditMarkInputs(r) == \E answerId \in MarkIds, mark \in Marks : EditMarkUpdate(r, answerId, mark)

NextAnswers ==
    \/ Tick
    \/ \E r \in Slots :
        \/ SubmitInputs(r, {0, Null}, {<<>>, <<" ">>, NotAString, <<" ", "x">>}, {NoId}, {NoId})
        \/ SubmitWrite(r)
        \/ AddMarkInputs(r)
        \/ AddMarkLookup(r)
        \/ EditMarkInputs(r)
        \/ EditMarkLookup(r)

SpecAnswers == InitAnswers /\ [][NextAnswers]_vars

\* Submissions alone, with and without an image
NextSubmit ==
    \/ Tick
    \/ \E r \in Slots :
        \/ SubmitInputs(r, {0}, {<<"x">>, <<"y", " ">>}, {NoId, "u1"}, {NoId})
        \/ SubmitWrite(r)

SpecSubmit == InitAnswers /\ [][NextSubmit]_vars

\* The six operations that write, side by side, at an instant before,
\* during or after the test
InitEffects ==
    /\ now \in {k * TickMs : k \in 0..MaxTick}
    /\ tests \in {<<t>> : t \in StoredTests({60}, {{}}, {SchemaSections})}
    /\ attempts = <<>>
    /\ answers = <<>>
    /\ nextId = 1
    /\ reqs = [r \in Slots |-> Idle]
    /\ reply = Response(Idle)
    /\ conn = NotCalled
    /\ users = <<>>
    /\ otpAttempts = NoRecords

NextEffects ==
    \E r \in Slots :
        \/ \E section \in {"A", "C"} : StartBegin(r, "s1", "t1", "d1", section)
        \/ StartExisting(r) \/ StartUpsert(r) \/ StartInsert(r)
        \/ FinishBegin(r, "s1", "t1")
        \/ FinishSave(r)
        \/ SubmitInputs(r, {0}, {<<>>, <<"x">>}, {NoId}, {NoId})
        \/ SubmitWrite(r)
        \/ \E answerId \in MarkIds : AddMarkUpdate(r, answerId, 3)
        \/ AddMarkLookup(r)
        \/ \E answerId \in MarkIds : EditMarkUpdate(r, answerId, 0)
        \/ EditMarkLookup(r)
        \/ TotalBegin(r, "s1", "d1", "t1")
        \/ TotalUpsert(r) \/ TotalInsert(r)

SpecEffects == InitEffects /\ [][NextEffects]_vars

\* Totals over stored answers.  Earlier runs stored up to MaxStored answers
\* of s1, one per question, for either domain, with and without a test,
\* marked or not.
StoredAnswer(k, domainId, testId, mark) ==
    [id |-> k, student |-> "s1", domain |-> domainId,
     question |-> <<"q1", "q2", "q3", "q4">>[k], test |-> testId, section |-> "A",
     answerText |-> <<"x">>, imageUrl |-> NoId, submittedAt |-> 0,
     examStartTime |-> 0, examEndTime |-> examEnd(0), mark |-> mark]

StoredAnswers ==
    UNION {[1..n -> [d : {"d1", "d2"}, t : {NoId, "t1"}, m : {Null, 3, 5}]]
           : n \in 0..MaxStored}

InitTotals ==
    /\ now = 0
    /\ tests \in {<<t>> : t \in StoredTests({60}, {{}}, {SchemaSections})}
    /\ attempts = <<>>
    /\ answers \in {[k \in DOMAIN rows |-> StoredAnswer(k, rows[k].d, rows[k].t, rows[k].m)]
                     : rows \in StoredAnswers}
    /\ nextId = Len(answers) + 1
    /\ reqs = [r \in Slots |-> Idle]
    /\ reply = Response(Idle)
    /\ conn = NotCalled
    /\ users = <<>>
    /\ otpAttempts = NoRecords

NextTotals ==
    \E r \in Slots :
        \/ \E testId \in {NoId, "t1"} : TotalBegin(r, "s1", "d1", testId)
        \/ TotalUpsert(r) \/ TotalInsert(r)

SpecTotals == InitTotals /\ [][NextTotals]_vars

\* A ledger row of (s1, t1) as start-exam writes it at time 0, and as a finish
\* at time 0 leaves it
StoredAttempt(id, status, endTime) ==
    Update(NewAttempt(id, "s1", "t1"),
           [startTime |-> 0, dueTime |-> examEnd(0), endTime |-> endTime, status |-> status,
            selectedDomain |-> "d1", selectedSection |-> "A"])

StoredAttempts(id) ==
    {<<>>, <<StoredAttempt(id, "in-progress", Null)>>, <<StoredAttempt(id, "completed", 0)>>}

\* The totals written to a ledger that already holds a row
InitScore ==
    /\ now = 0
    /\ tests \in {<<t>> : t \in StoredTests({60}, {{}}, {SchemaSections})}
    /\ answers \in {[k \in DOMAIN rows |-> StoredAnswer(k, rows[k].d, rows[k].t, rows[k].m)]
                     : rows \in {a \in StoredAnswers : \A k \in DOMAIN a : a[k].d = "d1"}}
    /\ attempts \in StoredAttempts(Len(answers) + 1)
    /\ nextId = Len(answers) + Len(attempts) + 1
    /\ reqs = [r \in Slots |-> Idle]
    /\ reply = Response(Idle)
    /\ conn = NotCalled
    /\ users = <<>>
    /\ otpAttempts = NoRecords

SpecScore == InitScore /\ [][NextTotals]_vars

\* ------------------------------------------------------------------ claims
SameKey(a, b) == a.student = b.student /\ a.test = b.test

\* slot r's request takes a step (it arrives, moves on or answers)
StepOf(r, op) ==
    /\ reqs'[r] # reqs[r]
    /\ reqs[r].op = op \/ (reqs[r].op = "idle" /\ reqs'[r].op = op)

\* slot r's request answers in this step: reply' is its response
Answers(r, op) == reqs[r].op = op /\ reqs'[r].op = "idle"

\* C1: in every reachable state the ledger holds at most one row per
\* (student, test), whatever interleaving of POST /tests/:id/start,
\* POST /student-answers/start-exam with a testId and
\* POST /student-answers/calculate-total with a testId wrote it.
C1_OneAttemptPerPair ==
    \A i, j \in DOMAIN attempts : SameKey(attempts[i], attempts[j]) => i = j

\* C1 witness: two start calls both found no row and went on to insert; the
\* index refused the second insert, which was handed to the caller.
C1_Witness ==
    /\ Len(attempts) = 1
    /\ reply.op = "start" /\ reply.result = "ServerError"

\* C2 (as claimed): a start call that found no row at its existence check
\* and finds, when its upsert runs, the row another start call has written
\* meanwhile, answers without an error and returns that row's window.
C2_LoserReadsWinnersRow ==
    [][\A r \in Slots :
        LET q == reqs[r]
            m == AttemptOf(q.student, q.test)
        IN (Answers(r, "start") /\ q.pc \in {"upsert", "insert"} /\ q.row = Null /\ m # {})
           => /\ reply'.result = "ok"
              /\ reply'.rStart = attempts[FirstIdx(m)].startTime
              /\ reply'.rDue = attempts[FirstIdx(m)].dueTime]_vars

\* C3 (as claimed): a step of a start call leaves the window of a pending or
\* in-progress row as it was, and a start call that answers with a window
\* returns that window.
C3_NoDeadlineExtension ==
    [][\A r \in Slots : \A i \in DOMAIN attempts :
        LET a == attempts[i]
        IN (/\ StepOf(r, "start")
            /\ a.student = reqs[r].student /\ a.test = reqs[r].test
            /\ a.status \in {"pending", "in-progress"}
            /\ a.startTime # Null /\ a.dueTime # Null)
           => /\ i \in DOMAIN attempts'
              /\ attempts'[i].startTime = a.startTime
              /\ attempts'[i].dueTime = a.dueTime
              /\ (Answers(r, "start") /\ reply'.result = "ok")
                    => (reply'.rStart = a.startTime /\ reply'.rDue = a.dueTime)]_vars

\* C4: a start call that has passed the admission checks and finds, at its
\* existence check, the row of (student, test) completed or expired, is
\* answered AlreadyCompleted there and then, and the ledger is left as it was.
C4_TerminalAttemptRejected ==
    [][\A r \in Slots :
        LET q == reqs[r]
            m == AttemptOf(q.student, q.test)
        IN (/\ StepOf(r, "start") /\ q.pc = "existing"
            /\ m # {} /\ attempts[FirstIdx(m)].status \in {"completed", "expired"})
           => /\ Answers(r, "start")
              /\ reply'.result = "AlreadyCompleted"
              /\ attempts' = attempts]_vars

\* C4 witness: an expired attempt, and a start call refused for it
C4_Witness ==
    /\ \E i \in DOMAIN attempts : attempts[i].status = "expired"
    /\ reply.op = "start" /\ reply.result = "AlreadyCompleted"

\* C5 (as claimed): a start call of a student whom the test's non-empty
\* eligibleStudents does not name writes no ledger row, and is answered
\* NotEligible once the other admission checks have passed.
C5_EligibleOnly ==
    [][\A r \in Slots :
        LET q == reqs[r]
            t == tests[FirstIdx(TestById(q.test))]
        IN (/\ StepOf(r, "start") /\ q.op = "start"
            /\ TestById(q.test) # {} /\ ~eligibleFor(t, q.student))
           => /\ attempts' = attempts
              /\ Answers(r, "start") /\ reply'.result = "NotEligible"]_vars

\* C6: every stored answer carries examEndTime = examStartTime + 2 h and
\* was submitted no later than that; and a submission that arrives with
\* now > examStartTime + 2 h is answered ExamExpired and writes nothing.
C6_ExpiredSubmissionRefused ==
    [][/\ \A i \in DOMAIN answers' :
            LET a == answers'[i]
            IN /\ a.examEndTime = a.examStartTime + 2 * 60 * 60 * 1000
               /\ a.submittedAt <= a.examEndTime
       /\ \A r \in Slots, examStartTime \in {0}, answerText \in {<<>>, <<" ", "x">>} :
            (/\ SubmitBegin(r, "s1", "q1", "d1", "A", examStartTime, answerText, NoId, NoId)
             /\ now > examStartTime + 2 * 60 * 60 * 1000)
            => /\ reply'.op = "submit" /\ reply'.result = "ExamExpired"
               /\ reqs'[r] = Idle
               /\ answers' = answers]_vars

\* C6 witness: an answer is stored, and a later submission was refused
C6_Witness ==
    /\ Len(answers) >= 1
    /\ reply.op = "submit" /\ reply.result = "ExamExpired"

\* C7 (as claimed): an answer submitted on the clock of a ledger row
\* (examStartTime = startTime) was submitted no later than the row's dueTime,
\* and a submission on that clock at or before dueTime is not refused.
C7_NoAnswerAfterDueTime ==
    [][/\ \A i \in DOMAIN answers', j \in DOMAIN attempts' :
            LET a == answers'[i]
                t == attempts'[j]
            IN (/\ a.student = t.student /\ a.test = t.test
                /\ a.examStartTime = t.startTime /\ t.dueTime # Null)
               => a.submittedAt <= t.dueTime
       /\ \A r \in Slots, j \in DOMAIN attempts :
            LET t == attempts[j]
            IN (/\ t.startTime # Null /\ t.dueTime # Null /\ now <= t.dueTime
                /\ SubmitBegin(r, t.student, "q1", "d1", "A", t.startTime, <<"x">>, NoId, t.test))
               => reqs'[r].pc = "write"]_vars

\* C8 (as claimed): at most one answer per (student, question, domain, section)
C8_OneAnswerPerKey ==
    \A i, j \in DOMAIN answers :
        (/\ answers[i].student = answers[j].student
         /\ answers[i].question = answers[j].question
         /\ answers[i].domain = answers[j].domain
         /\ answers[i].section = answers[j].section) => i = j

StoredAnswerIds == {answers[i].id : i \in DOMAIN answers}

\* C9: addMark on an answer whose mark is unset sets the mark and succeeds;
\* on an answer whose mark is set (0 included) it changes nothing and is
\* answered MarkAlreadyExists.
C9_AddMarkOnlyWhenUnset ==
    [][\A r \in Slots :
        /\ \A id \in StoredAnswerIds, mk \in {0, 3} :
             AddMarkUpdate(r, id, mk) =>
                \A i \in AnswerById(id) :
                    IF answers[i].mark = Null
                    THEN /\ answers'[i].mark = mk
                         /\ reply'.op = "addMark" /\ reply'.result = "ok"
                    ELSE /\ answers' = answers
                         /\ reqs'[r].pc = "lookup"
        /\ (AddMarkLookup(r) /\ AnswerById(reqs[r].row) # {})
             => /\ reply'.op = "addMark" /\ reply'.result = "MarkAlreadyExists"
                /\ answers' = answers]_vars

\* C9 witness: a second addMark was refused on an answer marked 0
C9_Witness ==
    /\ \E i \in DOMAIN answers : answers[i].mark = 0
    /\ reply.op = "addMark" /\ reply.result = "MarkAlreadyExists"

\* C10: editMark on an answer that has a mark (0 included) replaces it and
\* succeeds; on an answer whose mark is unset it changes nothing and is
\* answered NoExistingMark; on the id of no answer it is answered NotFound.
C10_EditMarkOnlyWhenSet ==
    [][\A r \in Slots :
        /\ \A id \in StoredAnswerIds \cup {0}, mk \in {0, 3} :
             EditMarkUpdate(r, id, mk) =>
                /\ \A i \in AnswerById(id) :
                      IF answers[i].mark # Null
                      THEN /\ answers'[i].mark = mk
                           /\ reply'.op = "editMark" /\ reply'.result = "ok"
                      ELSE /\ answers' = answers
                           /\ reqs'[r].pc = "lookup"
                /\ AnswerById(id) = {} => (answers' = answers /\ reqs'[r].pc = "lookup")
        /\ EditMarkLookup(r)
             => /\ answers' = answers
                /\ reply'.op = "editMark"
                /\ reply'.result = IF AnswerById(reqs[r].row) = {}
                                   THEN "NotFound" ELSE "NoExistingMark"]_vars

\* C10 witness: an edit was refused while no stored answer has a mark
C10_Witness ==
    /\ Len(answers) >= 1
    /\ \A i \in DOMAIN answers : answers[i].mark = Null
    /\ reply.op = "editMark" /\ reply.result = "NoExistingMark"

\* C11: under every interleaving of addMark and editMark, a step that takes
\* an answer's mark from unset to set is an addMark update; a mark once set
\* is never unset again, so no second call makes that transition; an
\* editMark update answers ok only on an answer whose mark is already set.
C11_OnlyAddMarkCreatesMark ==
    [][/\ \A i \in DOMAIN answers :
            /\ (answers[i].mark = Null /\ answers'[i].mark # Null)
                 => \E r \in Slots, mk \in {0, 3} : AddMarkUpdate(r, answers[i].id, mk)
            /\ answers[i].mark # Null => answers'[i].mark # Null
       /\ \A r \in Slots, id \in StoredAnswerIds, mk \in {0, 3} :
            (/\ EditMarkUpdate(r, id, mk)
             /\ reqs'[r] = Idle /\ reply'.op = "editMark" /\ reply'.result = "ok")
            => \A i \in AnswerById(id) : answers[i].mark # Null]_vars

\* C11 witness: the mark is set, an addMark that lost the race waits to be
\* refused, and an editMark that came after the winning addMark succeeded
C11_Witness ==
    /\ \E i \in DOMAIN answers : answers[i].mark # Null
    /\ \E r \in Slots : reqs[r].op = "addMark" /\ reqs[r].pc = "lookup"
    /\ reply.op = "editMark" /\ reply.result = "ok"

C13_DeriveStatus ==
    \A i \in DOMAIN tests :
        computeStatus(tests[i]) =
            IF now < tests[i].startDate THEN "upcoming"
            ELSE IF now > tests[i].endDate THEN "finished"
            ELSE "active"

\* slot r answers res on arrival
AnsweredAtOnce(r, op, res) ==
    reqs'[r] = Idle /\ reply'.op = op /\ reply'.result = res

\* C14 (as claimed): a start request whose test does not exist, is not
\* active, does not have the domain or does not have the section is answered
\* NotFound, NotActive, DomainNotInTest or InvalidSection in that order and
\* writes nothing; and a start request writes the ledger only if its test
\* exists and has the domain and the section it names.
C14_AdmissionPreconditions ==
    [][\A r \in Slots :
        /\ \A id \in {"t1", "t9"}, domainId \in {"d1", "d2"}, section \in {"A", "C"} :
             StartBegin(r, "s1", id, domainId, section) =>
                /\ attempts' = attempts
                /\ LET t == tests[FirstIdx(TestById(id))]
                   IN IF TestById(id) = {} THEN AnsweredAtOnce(r, "start", "NotFound")
                      ELSE IF now < t.startDate \/ now > t.endDate
                      THEN AnsweredAtOnce(r, "start", "NotActive")
                      ELSE IF domainId \notin t.domains
                      THEN AnsweredAtOnce(r, "start", "DomainNotInTest")
                      ELSE IF section \notin t.sections
                      THEN AnsweredAtOnce(r, "start", "InvalidSection")
                      ELSE reqs'[r].pc = "existing"
        /\ (StepOf(r, "start") /\ attempts' # attempts) =>
             /\ TestById(reqs[r].test) # {}
             /\ LET t == tests[FirstIdx(TestById(reqs[r].test))]
                IN /\ now >= t.startDate
                   /\ reqs[r].domain \in t.domains
                   /\ reqs[r].section \in t.sections]_vars

\* C15 (as claimed): every ledger row that has a startTime and a dueTime
\* has dueTime = startTime + durationMinutes of its test, whoever wrote it.
C15_WindowIsTestDuration ==
    \A i \in DOMAIN attempts :
        LET a == attempts[i]
        IN (a.startTime # Null /\ a.dueTime # Null /\ TestById(a.test) # {})
           => a.dueTime = a.startTime
                + tests[FirstIdx(TestById(a.test))].durationMinutes * 60 * 1000

\* C16 (as claimed): a start request that found a pending or in-progress row
\* whose dueTime had passed when it read the clock is not answered with a
\* window, and does not leave the row in progress with a deadline ahead.
C16_ExpiryReported ==
    [][\A r \in Slots :
        LET q == reqs[r]
        IN \A i \in AttemptById(q.row) :
              (/\ StepOf(r, "start") /\ q.op = "start" /\ q.pc = "upsert"
               /\ attempts[i].status \in {"pending", "in-progress"}
               /\ attempts[i].dueTime # Null /\ q.start > attempts[i].dueTime)
              => /\ Answers(r, "start")
                 /\ reply'.op = "start" /\ reply'.result # "ok" /\ reply'.rDue = Null
                 /\ ~(attempts'[i].status = "in-progress"
                      /\ attempts'[i].dueTime >= now)]_vars

\* C17: a submission whose answerText is missing, no string, empty or
\* blank is refused on arrival and writes no answer, whether or not an
\* answer is stored for its key; while the exam runs the refusal is
\* ValidationError (after the deadline it is ExamExpired, checked first).
C17_BlankTextRefused ==
    [][\A r \in Slots, answerText \in {<<>>, <<" ">>, NotAString} :
          SubmitBegin(r, "s1", "q1", "d1", "A", 0, answerText, NoId, NoId)
          => /\ answers' = answers
             /\ AnsweredAtOnce(r, "submit",
                    IF now > 0 + 2 * 60 * 60 * 1000
                    THEN "ExamExpired" ELSE "ValidationError")]_vars

\* C17 witness: a submission without text was refused while an answer is stored
C17_Witness ==
    /\ Len(answers) >= 1
    /\ reply.op = "submit" /\ reply.result = "ValidationError"

\* C18 (as claimed): a successful submission for a key that has a stored
\* answer leaves that answer with exactly its own answerText, image
\* reference, submittedAt, examStartTime and examEndTime.
C18_FullReplace ==
    [][\A r \in Slots :
          LET q == reqs[r]
          IN (SubmitWrite(r) /\ q.row # Null /\ reply'.result = "ok")
             => \A i \in AnswerById(q.row) :
                   /\ answers'[i].answerText = q.text
                   /\ answers'[i].imageUrl = q.image
                   /\ answers'[i].submittedAt = q.at
                   /\ answers'[i].examStartTime = q.start
                   /\ answers'[i].examEndTime = q.due]_vars

\* C19: no step of a submission changes a mark, the mark of the answer it
\* overwrites included, and an answer it creates has no mark.
C19_SubmitKeepsMarks ==
    [][\A r \in Slots :
          (\/ StepOf(r, "submit")                 \* it goes on to write, or writes
           \/ (reqs' = reqs /\ now' = now /\ reply'.op = "submit"))  \* refused on arrival
          => /\ \A i \in DOMAIN answers : answers'[i].mark = answers[i].mark
             /\ \A i \in DOMAIN answers' \ DOMAIN answers : answers'[i].mark = Null]_vars

\* C19 witness: the one stored answer has a mark and was then overwritten
C19_Witness ==
    /\ Len(answers) = 1 /\ answers[1].mark # Null
    /\ reply.op = "submit" /\ reply.result = "ok"

\* the sum computeTotal is to return, taken row by row
RECURSIVE ExpectedTotal(_, _)
ExpectedTotal(n, testId) ==
    IF n = 0 THEN 0
    ELSE LET a == answers[n]
         IN ExpectedTotal(n - 1, testId)
            + (IF /\ a.student = "s1" /\ a.domain = "d1"
                  /\ (testId # NoId => a.test = testId)
                  /\ a.mark # Null
               THEN a.mark ELSE 0)

\* C20: calculate-total answers with the sum of the marks of the answers of
\* (student, domain), of the test too when one is named, an unset mark
\* counting 0 and no matching answer giving 0.
C20_TotalIsSumOfMarks ==
    [][\A r \in Slots :
        /\ TotalBegin(r, "s1", "d1", NoId) =>
              /\ AnsweredAtOnce(r, "total", "ok")
              /\ reply'.total = ExpectedTotal(Len(answers), NoId)
        /\ (Answers(r, "total") /\ reply'.result = "ok") =>
              /\ reply'.op = "total"
              /\ reply'.total = ExpectedTotal(Len(answers), reqs[r].test)]_vars

\* C20 witness: marks 3, 5 and unset give the total 8
C20_Witness ==
    /\ Len(answers) = 3
    /\ \A i \in 1..3 : answers[i].domain = "d1"
    /\ answers[1].mark = 3 /\ answers[2].mark = 5 /\ answers[3].mark = Null
    /\ reply.op = "total" /\ reply.result = "ok" /\ reply.total = 8

\* C21: calculate-total with a testId stores the sum in the score of the row
\* of (student, test) and changes no other field of a row that exists;
\* calculate-total without a testId writes nothing.
C21_TotalWritesScoreOnly ==
    [][\A r \in Slots :
        /\ TotalBegin(r, "s1", "d1", NoId) => attempts' = attempts
        /\ StepOf(r, "total") =>
              \A i \in DOMAIN attempts :
                  \/ attempts'[i] = attempts[i]
                  \/ /\ SameKey(attempts[i], reqs[r])
                     /\ attempts'[i] = [attempts[i] EXCEPT !.score = reqs[r].mark]
        /\ (Answers(r, "total") /\ reply'.result = "ok" /\ reqs[r].test # NoId) =>
              \E i \in DOMAIN attempts' :
                  /\ SameKey(attempts'[i], reqs[r])
                  /\ attempts'[i].score = reply'.total
                  /\ reply'.total = ExpectedTotal(Len(answers), reqs[r].test)]_vars

\* C21 witness: a completed attempt received the score 8 and kept its status,
\* its window and its selection
C21_Witness ==
    /\ Len(attempts) = 1
    /\ attempts[1] = [StoredAttempt(attempts[1].id, "completed", 0) EXCEPT !.score = 8]
    /\ reply.op = "total" /\ reply.result = "ok" /\ reply.total = 8

\* the student's attempts whose test still exists
Listed(student) ==
    {i \in DOMAIN attempts : attempts[i].student = student /\ TestById(attempts[i].test) # {}}

\* the buckets of a response that hold the attempt
BucketsOf(b, id) == {k \in DOMAIN b : id \in b[k]}

\* C22: in the answer of GET /tests/student/my-tests an attempt is in completed
\* if its status is completed or expired or its test has ended, in active if
\* it is in progress and its test is running, in upcoming if it is pending
\* and its test has not begun; no attempt is in more than one bucket.
C22_HistoryBuckets ==
    [][\A r \in Slots : MyTests(r, "s1") =>
        \A i \in Listed("s1") :
            LET a == attempts[i]
                t == tests[FirstIdx(TestById(a.test))]
                b == reply'.buckets
            IN /\ (a.status \in {"completed", "expired"} \/ now > t.endDate)
                      => a.id \in b.completed
               /\ (a.status = "in-progress" /\ t.startDate <= now /\ now <= t.endDate)
                      => a.id \in b.active
               /\ (a.status = "pending" /\ now < t.startDate) => a.id \in b.upcoming
               /\ Cardinality(BucketsOf(b, a.id)) <= 1]_vars

\* C22 witness: an attempt still in progress after its test ended was filed
\* as completed
C22_Witness ==
    /\ reply.op = "myTests"
    /\ \E i \in Listed("s1") :
          /\ attempts[i].status = "in-progress"
          /\ now > tests[FirstIdx(TestById(attempts[i].test))].endDate
          /\ BucketsOf(reply.buckets, attempts[i].id) = {"completed"}

\* C23: the answer of GET /tests/student/my-tests holds every attempt of the
\* student whose test exists in exactly one bucket, whatever the attempt's
\* status and the test's derived status.
C23_NoAttemptDropped ==
    [][\A r \in Slots : MyTests(r, "s1") =>
        \A i \in Listed("s1") :
            Cardinality(BucketsOf(reply'.buckets, attempts[i].id)) = 1]_vars

\* C24: POST /tests/:id/submit answers NotStarted for a student whom
\* POST /tests/:id/start never admitted to the test, also when the ledger
\* holds a row of the pair that calculate-total wrote (a row without window).
C24_FinishNeedsAdmission ==
    [][\A r \in Slots : \A id \in {"t1", "t9"} :
        (/\ FinishBegin(r, "s1", id)
         /\ \A i \in AttemptOf("s1", id) : attempts[i].startTime = Null)
        => AnsweredAtOnce(r, "finish", "NotStarted")]_vars

\* the order of the three statuses
Phase(status) == CASE status = "inactive" -> 0 [] status = "active" -> 1 [] status = "finished" -> 2

\* C25: for a test whose dates stay as they are, the status computed never
\* moves backwards as the clock advances: not begun, then active, then
\* finished, and finished for good.
C25_StatusMonotonic ==
    [][\A i \in DOMAIN tests :
        (/\ i \in DOMAIN tests'
         /\ tests'[i].startDate = tests[i].startDate
         /\ tests'[i].endDate = tests[i].endDate)
        => /\ Phase(computeStatusAt(tests'[i], now')) >= Phase(computeStatusAt(tests[i], now))
           /\ computeStatusAt(tests[i], now) = "finished"
                  => computeStatusAt(tests'[i], now') = "finished"]_vars

\* C25 witness: the test that admitted a student while it was active is
\* finished now
C25_Witness ==
    /\ computeStatus(tests[1]) = "finished"
    /\ \E i \in DOMAIN attempts :
          /\ attempts[i].test = tests[1].id
          /\ computeStatusAt(tests[1], attempts[i].startTime) = "active"

\* C26: every row of the ledger has dueTime >= startTime when both are set
\* and endTime >= startTime when both are set, whatever sequence of
\* POST /tests/:id/start, start-exam, POST /tests/:id/submit and
\* calculate-total wrote it.
C26_WindowOrdered ==
    \A i \in DOMAIN attempts :
        LET a == attempts[i]
        IN /\ (a.startTime # Null /\ a.dueTime # Null) => a.dueTime >= a.startTime
           /\ (a.startTime # Null /\ a.endTime # Null) => a.endTime >= a.startTime

\* C27: every stored test has at least one domain and an endDate after its
\* startDate, whatever sequence of POST /tests/admin, POST /admin/tests and
\* PUT /tests/:id wrote it.
C27_StoredTestsValid ==
    \A i \in DOMAIN tests : tests[i].domains # {} /\ tests[i].endDate > tests[i].startDate

\* the two states of a step differ in the stored status of a test, and in
\* nothing else of the stores and the clock
OnlyStoredStatusDiffers ==
    /\ tests' # tests /\ DOMAIN tests' = DOMAIN tests
    /\ \A i \in DOMAIN tests : tests'[i] = [tests[i] EXCEPT !.status = tests'[i].status]
    /\ now' = now /\ attempts' = attempts /\ answers' = answers

\* the lists GET /tests/student answers in a state
StudentListing(student) ==
    listed([upcoming |-> withStatus(student, "inactive"),
            active |-> withStatus(student, "active"),
            completed |-> withStatus(student, "finished")], completedTestIds(student))

\* C28: in two states that differ only in the stored status of a test, the
\* status computed for each test, the outcome of the check of a start
\* request, the lists of GET /tests/student and the attempt history are the
\* same; the status computed is the one the dates and the clock give.
C28_StoredStatusAdvisory ==
    [][OnlyStoredStatusDiffers =>
        /\ \A i \in DOMAIN tests :
              /\ computeStatus(tests[i])' = computeStatus(tests[i])
              /\ computeStatus(tests[i])' =
                    IF now < tests[i].startDate THEN "inactive"
                    ELSE IF now > tests[i].endDate THEN "finished" ELSE "active"
        /\ \A id \in {"t1", "t9"}, domainId \in {"d1", "d2"}, section \in {"A", "C"} :
              StartChecked("s1", id, domainId, section)'
                  = StartChecked("s1", id, domainId, section)
        /\ StudentListing("s1")' = StudentListing("s1")
        /\ categorized("s1")' = categorized("s1")]_vars

\* C28 witness: the stored status says active, the test has not begun, and
\* the start request that came after was refused
C28_Witness ==
    /\ tests[1].status = "active" /\ now < tests[1].startDate
    /\ reply.op = "start" /\ reply.result = "NotActive"

C30_TerminalStaysTerminal ==
    [][\A i \in DOMAIN attempts :
        (attempts[i].status \in {"completed", "expired"}) =>
            /\ i \in DOMAIN attempts'
            /\ attempts'[i].status \in {"completed", "expired"}
            /\ attempts'[i].startTime = attempts[i].startTime
            /\ attempts'[i].dueTime = attempts[i].dueTime]_vars

\* C31: the terminal outcome is written once: a POST /tests/:id/submit that
\* saves onto an attempt already completed or expired changes neither its
\* endTime nor its status.
C31_OutcomeWrittenOnce ==
    [][\A r \in Slots : FinishSave(r) =>
        \A i \in DOMAIN attempts :
            (attempts[i].status \in {"completed", "expired"} /\ attempts[i].endTime # Null) =>
                /\ attempts'[i].endTime = attempts[i].endTime
                /\ attempts'[i].status = attempts[i].status]_vars

\* C32: an answer is stored only on the clock of an admission: the
\* examStartTime of the request is the startTime of a ledger row of the
\* student, and an answer that names a test is stored only while the
\* student's attempt for that test exists and is not completed or expired.
C32_SubmitOnAdmissionClock ==
    [][\A r \in Slots : (SubmitWrite(r) /\ answers' # answers) =>
        LET q == reqs[r]
        IN /\ \E i \in DOMAIN attempts :
                 attempts[i].student = q.student /\ attempts[i].startTime = q.start
           /\ q.test # NoId =>
                 \E i \in AttemptOf(q.student, q.test) :
                     attempts[i].status \notin {"completed", "expired"}]_vars

\* no request is in flight
Quiescent == \A r \in Slots : reqs[r] = Idle

\* C33: ledger rows are removed only by the deletion of their test, and
\* whenever no request is in flight every row names a test that exists.
C33_RowsFollowTests ==
    [][/\ \A i \in DOMAIN attempts :
            (\A j \in DOMAIN attempts' : attempts'[j].id # attempts[i].id) =>
                \E r \in Slots : DeleteCascade(r) /\ reqs[r].test = attempts[i].test
       /\ Quiescent' => \A i \in DOMAIN attempts' :
                            \E k \in DOMAIN tests' : tests'[k].id = attempts'[i].test]_vars

\* C34: a start call sees one instant: the window it writes has a startTime
\* at which its test is running, startDate <= startTime <= endDate, also
\* when the clock advances between the steps of the handler.
C34_StartSeesOneInstant ==
    [][\A r \in Slots : (StepOf(r, "start") /\ attempts' # attempts) =>
        \A i \in DOMAIN attempts' :
            (SameKey(attempts'[i], reqs[r]) /\ TestById(reqs[r].test) # {}) =>
                LET t == tests[FirstIdx(TestById(reqs[r].test))]
                IN t.startDate <= attempts'[i].startTime /\ attempts'[i].startTime <= t.endDate]_vars

\* C35: no two stored tests have the same trimmed title, whatever sequence
\* or interleaving of POST /tests/admin, POST /admin/tests and
\* PUT /tests/:id wrote them.
C35_TitlesUnique ==
    \A i, j \in DOMAIN tests : Trim(tests[i].title) = Trim(tests[j].title) => i = j

\* ------------------------------------------------------------ connectDB alone
RetriesInputs == {NoOpts, <<-1>>, <<0>>, <<1>>, <<2>>, <<3>>}

NextConnect ==
    \/ \E hasUri \in BOOLEAN, opts \in RetriesInputs : connectDB(hasUri, opts)
    \/ \E ok \in BOOLEAN : ConnectSettles(ok)
    \/ ConnectSleeps
    \/ disconnectDB

SpecConnect == InitLedger /\ [][NextConnect]_vars

\* C36: connectDB, when not already connected, returns on the first attempt that
\* succeeds, makes at most `retries` attempts, sleeps 500 * 2^(k-1) ms after the
\* k-th failure and not after the last one, and when every attempt has failed throws
\* the last attempt's error, which is a real (non-null) error whatever `retries` is.
C36_ConnectRetries ==
    /\ conn.tried = 0 \/ conn.tried <= conn.retries
    /\ \A k \in DOMAIN conn.slept : conn.slept[k] = 500 * 2 ^ (k - 1)
    /\ (conn.pc = "done" /\ conn.tried > 0) => Len(conn.slept) = conn.tried - 1
    /\ (conn.outcome = "returned" /\ conn.tried > 0) => conn.lastErr = conn.tried - 1
    /\ (conn.outcome = "threw" /\ conn.thrown # MissingUri) =>
           /\ conn.thrown # NoError
           /\ conn.thrown = conn.tried

\* ------------------------------------------- exam sessions, one call at a time
\* The examStartTime a client sends with an answer is the one it was issued last.
IssuedStarts == IF reply.op = "startExam" /\ reply.result = "ok" THEN {reply.rStart} ELSE {}

NextSession ==
    \/ Tick
    \/ \E testId \in {NoId, "t1"} : ExamBegin(1, "s1", "d1", "A", testId)
    \/ ExamSession(1)
    \/ ExamUpsert(1)
    \/ ExamInsert(1)
    \/ SubmitInputs(1, IssuedStarts, {<<"x">>}, {NoId}, {NoId})
    \/ SubmitWrite(1)

SpecSession == InitLedger /\ [][NextSession]_vars

\* C37: once POST /student-answers/start-exam has issued a window for (student,
\* domain, section), a repeated call before that window's examEndTime succeeds and
\* returns the same examStartTime and examEndTime, whether or not an answer is
\* stored; a call that finds a stored session past its examEndTime is refused as
\* expired and leaves the ledger as it is.
C37_StartExamIdempotent ==
    [][\A r \in Slots : Answers(r, "startExam") =>
        /\ (reply.op = "startExam" /\ reply.result = "ok" /\ now <= reply.rDue) =>
               /\ reply'.result = "ok"
               /\ reply'.rStart = reply.rStart
               /\ reply'.rDue = reply.rDue
        /\ (reqs[r].pc = "session" /\ examExpired(now, reqs[r].due)) =>
               /\ reply'.result = "ExamExpired"
               /\ attempts' = attempts]_vars

\* ------------------------------------------------------- the user lifecycle
UserIds == {"u1", "u2", "u9"}

InitUsers ==
    /\ now = 0
    /\ tests = <<>>
    /\ attempts = <<>>
    /\ answers = <<>>
    /\ nextId = 1
    /\ reqs = [r \in Slots |-> Idle]
    /\ reply = Response(Idle)
    /\ conn = NotCalled
    /\ users = <<NewUser("u1", "a@x", "student"), NewUser("u2", "b@x", "staff")>>
    /\ otpAttempts = NoRecords

NextUsers ==
    \/ \E r \in Slots, id \in UserIds :
        \/ ApproveBegin(r, id)
        \/ RemoveBegin(r, id)
        \/ \E disabled \in BOOLEAN : StatusBegin(r, id, disabled)
        \/ RestoreBegin(r, id)
        \/ Login(r, id)
    \/ \E r \in Slots :
        \/ ApproveSave(r)
        \/ RemoveSave(r)
        \/ StatusSave(r)
        \/ RestoreSave(r)

SpecUsers == InitUsers /\ [][NextUsers]_vars

\* C38: in every reachable state a user whose deletedAt is set is inactive and
\* disabled, and so is refused by the login checks, until it is restored.
C38_DeletedNeverActive ==
    \A i \in DOMAIN users :
        users[i].deletedAt # Null =>
            /\ ~users[i].isActive
            /\ users[i].disabled
            /\ ~loginAllows(users[i])

\* ------------------------------------------------------------ the OTP limiter
Emails == {"a@x", "b@x"}

InitOtp ==
    /\ now = 0
    /\ tests = <<>>
    /\ attempts = <<>>
    /\ answers = <<>>
    /\ nextId = 1
    /\ reqs = [r \in Slots |-> Idle]
    /\ reply = Response(Idle)
    /\ conn = NotCalled
    /\ users = <<NewUser("u1", "a@x", "student")>>
    /\ otpAttempts = NoRecords

NextOtp ==
    \/ OtpTick
    \/ \E r \in Slots :
        \/ \E email \in Emails \cup {""} : RequestOtpBegin(r, email)
        \/ RequestOtpLookup(r)
        \/ RequestOtpSave(r)

SpecOtp == InitOtp /\ [][NextOtp]_vars

\* the request of this step is turned away by the limiter
Limited(r) == reqs'[r] = Idle /\ reply'.op = "resetOtp" /\ reply'.result = "RateLimited"

\* C39: per email the limiter lets at most 5 requests pass in one window: a request
\* made no more than 15 minutes after resetTime when 5 have passed is rejected, a
\* rejected request leaves the record (its count and its resetTime) as it was, a
\* request that passes either counts one more in the running window or, made more
\* than 15 minutes after resetTime (or first for its email), restarts the count at 1.
C39_OtpLimit ==
    [][\A r \in Slots, e \in Emails : RequestOtpBegin(r, e) =>
        LET had == e \in DOMAIN otpAttempts
            inWindow == had /\ now - otpAttempts[e].resetTime <= 15 * 60 * 1000
        IN /\ (inWindow /\ otpAttempts[e].attempts >= 5) => Limited(r)
           /\ Limited(r) => otpAttempts' = otpAttempts
           /\ ~Limited(r) =>
                  /\ otpAttempts'[e].attempts <= 5
                  /\ IF inWindow
                     THEN /\ otpAttempts'[e].attempts = otpAttempts[e].attempts + 1
                          /\ otpAttempts'[e].resetTime = otpAttempts[e].resetTime
                     ELSE /\ otpAttempts'[e].attempts = 1
                          /\ otpAttempts'[e].resetTime = now
           /\ \A o \in DOMAIN otpAttempts \ {e} :
                  o \in DOMAIN otpAttempts' /\ otpAttempts'[o] = otpAttempts[o]]_vars

\* the sixth request of a window has been rejected
C39_Witness ==
    /\ reply.op = "resetOtp" /\ reply.result = "RateLimited"
    /\ \E e \in DOMAIN otpAttempts :
          /\ otpAttempts[e].attempts = 5
          /\ now - otpAttempts[e].resetTime = 15 * 60 * 1000
====
